---- MODULE Spec2Model ----
(***************************************************************************)
(* The data-fetching layer of the organization projects dashboard:         *)
(*   withTeamProjects  (src/unnamed/part_002, the loadingTeams variant)    *)
(*   withUsersTeams    (src/unnamed/part_003)                              *)
(*   Teams, Dashboard  (views/organizationDetails/                         *)
(*                      lightWeightInstallPromptBanner.jsx, lines 86-234)  *)
(*   TeamSection       (views/organizationProjectsDashboard/               *)
(*                      teamSection.jsx)                                   *)
(*   Dashboard.render  (src/unnamed/part_000 and part_001)                 *)
(* Every component is a React class component: its state changes only by   *)
(* setState, its lifecycle methods run to completion, and the continuation *)
(* of a request runs as one step when the response arrives.                *)
(***************************************************************************)
EXTENDS Integers, Sequences, FiniteSets, TLC

VARIABLES
  phase,        \* the mounted tree: "constructed" | "mounted" | "unmounted"
  props,        \* withTeamProjects: this.props (organization, teams, loadingTeams)
  wtpState,     \* withTeamProjects: this.state (projects, loadingProjects)
  fanouts,      \* every Promise.all issued by fetchProjects, oldest first
  sameSetFanouts, \* history: fan-outs issued since the set of team slugs last changed
  lateSetState, \* history: setState calls made on an unmounted component
  wutState,     \* withUsersTeams: this.state (teams)
  wutReq,       \* withUsersTeams: its team request, "none" | "pending" | "resolved" | "rejected"
  teamRequests, \* history: team-list requests issued by the team-fetching component
  dashProps,    \* Dashboard (part_000): this.props
  view,         \* Dashboard (part_000): what render() returned last
  route,        \* the route string of the router's current location
  storeResets,  \* history: calls of ProjectsStatsStore.reset()
  teamsState,   \* Teams: this.state (teams, initiallyLoaded, fetching, hasMore)
  teamsReq,     \* Teams: its team request, "none" | "pending" | "resolved" | "rejected"
  sections      \* TeamSection of each team: its phase, this.state and its request

wtpVars == <<phase, props, wtpState, fanouts, sameSetFanouts, lateSetState>>
wutVars == <<wutState, wutReq, teamRequests>>
renderVars == <<dashProps, view, route, storeResets>>
lightVars == <<teamsState, teamsReq, sections>>
vars == <<wtpVars, wutVars, renderVars, lightVars>>

(***************************************************************************)
(* Bounds of the model.                                                    *)
(***************************************************************************)
MaxFanouts == 2    \* fan-outs issued during one mount
MaxUnmounts == 2   \* unmounts of the Dashboard that is mounted again

(***************************************************************************)
(* The backend: team slugs, and the project list each team's endpoint      *)
(* answers with.  Project "p2" belongs to both teams.                      *)
(***************************************************************************)
Slugs == {"a", "b"}

OrgSlug == "org"

(***************************************************************************)
(* The lifecycle methods of Dashboard, the same in part_000 (37-47),       *)
(* part_001 (38-48) and lightWeightInstallPromptBanner.jsx (136-146).      *)
(***************************************************************************)
OldRoute == "/:orgId/"

NewRoute == "/organizations/:orgId/"

Routes == {OldRoute, NewRoute}

\* componentDidMount(): on the old route, browserHistory.replace to the new
\* one; the store is not touched.
DashboardDidMount(r) == IF r = OldRoute THEN NewRoute ELSE r

\* componentWillUnmount(): ProjectsStatsStore.reset().
DashboardWillUnmount(resets) == resets + 1

ProjectsOfTeam == [s \in Slugs |->
  IF s = "a" THEN <<"p1", "p2">> ELSE <<"p2", "p3">>]

IsInjective(f) == \A i, j \in DOMAIN f : f[i] = f[j] => i = j

\* The team lists a parent can hand down: no team twice, any order.
TeamLists ==
  {t \in UNION {[1..n -> Slugs] : n \in 0..Cardinality(Slugs)} : IsInjective(t)}

SlugSet(teams) == {teams[i] : i \in DOMAIN teams}

\* The props a parent hands to withTeamProjects.  A parent that passes no
\* loadingTeams (undefined, falsy) is loadingTeams = FALSE.
PropsSet == [organization : {OrgSlug}, teams : TeamLists, loadingTeams : BOOLEAN]

(***************************************************************************)
(* Helpers of the React runtime and of the language.                       *)
(***************************************************************************)
\* this.setState(patch): a shallow merge of patch into the state.
setState(st, patch) ==
  [k \in DOMAIN st \cup DOMAIN patch |-> IF k \in DOMAIN patch THEN patch[k] ELSE st[k]]

\* lodash isEqual on two team arrays: element-wise deep equality, in order.
isEqual(x, y) ==
  /\ Len(x) = Len(y)
  /\ \A i \in 1..Len(x) : x[i] = y[i]

\* Array.prototype.flat(): the concatenation of the inner arrays, in order.
RECURSIVE flat(_)
flat(arrays) ==
  IF arrays = <<>> THEN <<>> ELSE Head(arrays) \o flat(Tail(arrays))

\* A join that fires on the first resolved promise instead of the last.
PromiseAll_FirstResolved(promises) ==
  IF \E i \in DOMAIN promises : promises[i].status = "rejected" THEN "rejected"
  ELSE IF \E i \in DOMAIN promises : promises[i].status = "resolved" THEN "fulfilled"
  ELSE "pending"

\* Promise.all: rejected as soon as one promise rejects, fulfilled once all
\* are resolved, pending otherwise.
PromiseAll(promises) ==
  IF \E i \in DOMAIN promises : promises[i].status = "rejected" THEN "rejected"
  ELSE IF \A i \in DOMAIN promises : promises[i].status = "resolved" THEN "fulfilled"
  ELSE "pending"

\* A nullable value: Null, or Some(x).
Null == <<>>
Some(x) == <<x>>

\* The props of a Dashboard (part_000) that nothing has rendered yet.
DashPropsInitial == [teams |-> <<>>, loadingTeams |-> TRUE, error |-> Null, access |-> {}]

\* Teams (lightWeightInstallPromptBanner.jsx, line 92) and TeamSection
\* (teamSection.jsx, line 23): the state each is constructed with.  A
\* TeamSection is "lazy" until LazyLoad mounts it.
TeamsInitialState ==
  [teams |-> Null, initiallyLoaded |-> FALSE, fetching |-> FALSE, hasMore |-> Null]

TeamSectionInitialState == [loading |-> TRUE, projects |-> <<>>]

SectionInitial == [phase |-> "lazy", state |-> TeamSectionInitialState, req |-> "none"]

(***************************************************************************)
(* withTeamProjects (src/unnamed/part_002).                                *)
(***************************************************************************)
WTPInitialState == [projects |-> <<>>, loadingProjects |-> TRUE]

getTeamsProjectEndpoints(p) ==
  [i \in 1..Len(p.teams) |-> [org |-> p.organization, team |-> p.teams[i]]]

\* api.requestPromise(endpoint): a request in flight.
requestPromise(endpoint) == [endpoint |-> endpoint, status |-> "pending"]

getTeamsProjectPromises(p) ==
  LET endpoints == getTeamsProjectEndpoints(p)
  IN  [i \in DOMAIN endpoints |-> requestPromise(endpoints[i])]

\* The value a fulfilled Promise.all hands to its continuation: the response
\* bodies in the order of the promises.
Results(promises) ==
  [i \in DOMAIN promises |-> ProjectsOfTeam[promises[i].endpoint.team]]

\* fetchProjects(): the state and the list of fan-outs it leaves behind.
fetchProjects(p, st, fl) ==
  LET st1 == setState(st, [loadingProjects |-> TRUE])
      promises == getTeamsProjectPromises(p)
  IN  IF Len(promises) > 0
        THEN [state |-> st1, fanouts |-> Append(fl, promises)]
        ELSE [state |-> st1, fanouts |-> fl]

\* componentDidMount without its loadingTeams guard.
MountFetches_Unguarded(p) == TRUE

\* componentDidMount(): whether it calls fetchProjects.
MountFetches(p) == ~p.loadingTeams

componentDidMount(p, st, fl) ==
  IF MountFetches(p) THEN fetchProjects(p, st, fl)
  ELSE [state |-> st, fanouts |-> fl]

\* componentDidUpdate that never calls fetchProjects.
UpdateFetches_Never(prevProps, p) == FALSE

\* componentDidUpdate(prevProps): whether it calls fetchProjects.
UpdateFetches(prevProps, p) ==
  ~p.loadingTeams /\ ~isEqual(prevProps.teams, p.teams)

componentDidUpdate(prevProps, p, st, fl) ==
  IF UpdateFetches(prevProps, p) THEN fetchProjects(p, st, fl)
  ELSE [state |-> st, fanouts |-> fl]

\* The continuation of Promise.all(promises).then(...).
FanInPatch(promises) ==
  [projects |-> flat(Results(promises)), loadingProjects |-> FALSE]

Issued(fl1, fl2) == Len(fl2) - Len(fl1)

\* React mounts the wrapper: componentDidMount runs.
Mount ==
  /\ phase = "constructed"
  /\ LET r == componentDidMount(props, wtpState, fanouts)
     IN  /\ wtpState' = r.state
         /\ fanouts' = r.fanouts
         /\ sameSetFanouts' = Issued(fanouts, r.fanouts)
  /\ phase' = "mounted"
  /\ UNCHANGED <<props, lateSetState, wutVars, renderVars, lightVars>>

\* The parent re-renders the wrapper with new props (always a new props
\* object; the team array may be the same, a copy, a permutation or another
\* list): componentDidUpdate(prevProps) runs.
ReceiveProps(newProps) ==
  LET r == componentDidUpdate(props, newProps, wtpState, fanouts)
  IN  /\ Len(r.fanouts) <= MaxFanouts
      /\ props' = newProps
      /\ wtpState' = r.state
      /\ fanouts' = r.fanouts
      /\ sameSetFanouts' =
           IF SlugSet(newProps.teams) = SlugSet(props.teams)
             THEN sameSetFanouts + Issued(fanouts, r.fanouts)
             ELSE Issued(fanouts, r.fanouts)

ParentRender ==
  /\ phase = "mounted"
  /\ \E newProps \in PropsSet : ReceiveProps(newProps)
  /\ UNCHANGED <<phase, lateSetState, wutVars, renderVars, lightVars>>

\* The response to request i of fan-out g arrives.  When it completes the
\* fan-out, the continuation of Promise.all runs in the same turn; the state
\* update it makes re-renders the wrapper, and componentDidUpdate runs with
\* prevProps = this.props.
\* Nothing stops the continuation after an unmount: it calls
\* setState on the unmounted component, which React drops with a warning.
Settle(g, i, outcome) ==
  LET promises == [fanouts[g] EXCEPT ![i].status = outcome]
      fl == [fanouts EXCEPT ![g] = promises]
  IN  /\ fanouts[g][i].status = "pending"
      /\ IF PromiseAll(promises) = "fulfilled"
           THEN IF phase = "mounted"
                  THEN LET st == setState(wtpState, FanInPatch(promises))
                           r == componentDidUpdate(props, props, st, fl)
                       IN  /\ wtpState' = r.state
                           /\ fanouts' = r.fanouts
                           /\ UNCHANGED lateSetState
                  ELSE /\ lateSetState' = lateSetState + 1
                       /\ fanouts' = fl
                       /\ UNCHANGED wtpState
           ELSE /\ fanouts' = fl
                /\ UNCHANGED <<wtpState, lateSetState>>
      /\ UNCHANGED <<phase, props, sameSetFanouts, wutVars, renderVars, lightVars>>

Resolve ==
  \E g \in DOMAIN fanouts : \E i \in DOMAIN fanouts[g] : Settle(g, i, "resolved")

Reject ==
  \E g \in DOMAIN fanouts : \E i \in DOMAIN fanouts[g] : Settle(g, i, "rejected")

\* React unmounts the wrapper; nothing cancels the requests in flight.
Unmount ==
  /\ phase = "mounted"
  /\ phase' = "unmounted"
  /\ UNCHANGED <<props, wtpState, fanouts, sameSetFanouts, lateSetState>>
  /\ UNCHANGED <<wutVars, renderVars, lightVars>>

Init ==
  /\ phase = "constructed"
  /\ props \in PropsSet
  /\ wtpState = WTPInitialState
  /\ fanouts = <<>>
  /\ sameSetFanouts = 0
  /\ lateSetState = 0
  /\ wutState = [teams |-> <<>>]
  /\ wutReq = "none"
  /\ teamRequests = 0
  /\ dashProps = DashPropsInitial
  /\ view = Null
  /\ route = NewRoute
  /\ storeResets = 0
  /\ teamsState = TeamsInitialState
  /\ teamsReq = "none"
  /\ sections = [s \in Slugs |-> SectionInitial]

Next == Mount \/ ParentRender \/ Resolve \/ Reject \/ Unmount

Spec == Init /\ [][Next]_vars

(***************************************************************************)
(* The dashboard composed as withUsersTeams(withTeamProjects(Dashboard)):  *)
(* withUsersTeams (src/unnamed/part_003) renders withTeamProjects          *)
(* (part_002) with teams = this.state.teams and no loadingTeams, which     *)
(* renders Dashboard (part_001) with its projects and loadingProjects.     *)
(***************************************************************************)
Orgs == {"org", "org2"}

WUTInitialState == [teams |-> <<>>]

IsBookmarked(project) == project = "p2"

\* project.name, by its place in the alphabetic order of the names.
NameRank == [project \in {"p1", "p2", "p3"} |->
               IF project = "p2" THEN 1 ELSE IF project = "p3" THEN 2 ELSE 3]

\* project.firstEvent is set: the project has received an event.
HasFirstEvent(project) == project # "p1"

\* team.slug, by its place in the order of Array.prototype.sort().
SlugRank == [slug \in Slugs |-> IF slug = "a" THEN 1 ELSE 2]

\* The order of sortProjects: bookmarked projects first, by name within each
\* group.
Precedes(x, y) ==
  \/ IsBookmarked(x) /\ ~IsBookmarked(y)
  \/ IsBookmarked(x) = IsBookmarked(y) /\ NameRank[x] < NameRank[y]

\* sortProjects(projects): a stable sort of the project objects by
\* (isBookmarked desc, name asc).
RECURSIVE sortProjects(_)
sortProjects(projects) ==
  IF projects = <<>> THEN <<>>
  ELSE LET x == Head(projects)
           rest == sortProjects(Tail(projects))
       IN  SelectSeq(rest, LAMBDA y : Precedes(y.id, x.id))
           \o <<x>>
           \o SelectSeq(rest, LAMBDA y : ~Precedes(y.id, x.id))

\* keys.sort(): the slugs of a set in ascending order.
SortSlugs(S) ==
  CHOOSE seq \in [1..Cardinality(S) -> S] :
    \A i, j \in DOMAIN seq : i < j => SlugRank[seq[i]] < SlugRank[seq[j]]

\* getProjectsByTeams(teams, projects).projectsByTeam: one key per team of the
\* team list, mapped to the projects of that team.
getProjectsByTeams(teams, projects) ==
  [s \in SlugSet(teams) |->
     SelectSeq(projects, LAMBDA q : \E i \in DOMAIN ProjectsOfTeam[s] : ProjectsOfTeam[s][i] = q)]

\* Dashboard.render() of part_001: which of its outcomes it returns.
render001(p) ==
  IF p.loadingProjects THEN [kind |-> "loading"]
  ELSE LET projectsByTeam == getProjectsByTeams(p.teams, p.projects)
           teamSlugs == DOMAIN projectsByTeam
           favorites == SelectSeq(p.projects, IsBookmarked)
           showEmptyMessage == Cardinality(teamSlugs) = 0 /\ Len(favorites) = 0
       IN  IF showEmptyMessage THEN [kind |-> "empty"] ELSE [kind |-> "content"]

\* What the composed dashboard shows in the current state.
DashboardView ==
  render001([teams |-> props.teams,
             projects |-> wtpState.projects,
             loadingProjects |-> wtpState.loadingProjects])

\* withUsersTeams.fetchTeams(): the team request it leaves in flight.
fetchTeams == "pending"

\* React mounts the tree: componentDidMount of Dashboard, then of
\* withTeamProjects, then of withUsersTeams, which calls fetchTeams.
DashMount ==
  /\ phase = "constructed"
  /\ LET r == componentDidMount(props, wtpState, fanouts)
     IN  /\ wtpState' = r.state
         /\ fanouts' = r.fanouts
         /\ sameSetFanouts' = Issued(fanouts, r.fanouts)
  /\ wutReq' = fetchTeams
  /\ teamRequests' = teamRequests + 1
  /\ phase' = "mounted"
  /\ route' = DashboardDidMount(route)
  /\ UNCHANGED <<props, lateSetState, wutState, dashProps, view, storeResets, lightVars>>

\* The team request resolves with data: setState({teams: data}) re-renders
\* withTeamProjects with the new team array.
TeamsResolve ==
  /\ wutReq = "pending"
  /\ wutReq' = "resolved"
  /\ \E data \in TeamLists :
       IF phase = "mounted"
         THEN /\ wutState' = setState(wutState, [teams |-> data])
              /\ ReceiveProps([props EXCEPT !.teams = wutState'.teams])
              /\ UNCHANGED lateSetState
         ELSE /\ lateSetState' = lateSetState + 1
              /\ UNCHANGED <<wutState, props, wtpState, fanouts, sameSetFanouts>>
  /\ UNCHANGED <<phase, teamRequests, renderVars, lightVars>>

\* The team request rejects: fetchTeams attaches no rejection handler.
TeamsReject ==
  /\ wutReq = "pending"
  /\ wutReq' = "rejected"
  /\ UNCHANGED <<wtpVars, wutState, teamRequests, renderVars, lightVars>>

\* A withUsersTeams that calls fetchTeams again when its organization changes.
OrgChange_Refetch ==
  /\ phase = "mounted"
  /\ \E org \in Orgs \ {props.organization} :
       ReceiveProps([props EXCEPT !.organization = org])
  /\ wutReq' = fetchTeams
  /\ teamRequests' = teamRequests + 1
  /\ UNCHANGED <<phase, lateSetState, wutState, renderVars, lightVars>>

\* The parent re-renders withUsersTeams with another organization; it has no
\* componentDidUpdate and passes the props on with its unchanged teams.
OrgChange ==
  /\ phase = "mounted"
  /\ \E org \in Orgs \ {props.organization} :
       ReceiveProps([props EXCEPT !.organization = org])
  /\ UNCHANGED <<phase, lateSetState, wutVars, renderVars, lightVars>>

\* React unmounts the tree: componentWillUnmount of Dashboard resets the
\* store; the wrappers define no componentWillUnmount.
DashboardUnmount ==
  /\ phase = "mounted"
  /\ phase' = "unmounted"
  /\ storeResets' = DashboardWillUnmount(storeResets)
  /\ UNCHANGED <<props, wtpState, fanouts, sameSetFanouts, lateSetState>>
  /\ UNCHANGED <<wutVars, dashProps, view, route, lightVars>>

InitDashboard ==
  /\ phase = "constructed"
  /\ props = [organization |-> OrgSlug, teams |-> WUTInitialState.teams,
              loadingTeams |-> FALSE]
  /\ wtpState = WTPInitialState
  /\ fanouts = <<>>
  /\ sameSetFanouts = 0
  /\ lateSetState = 0
  /\ wutState = WUTInitialState
  /\ wutReq = "none"
  /\ teamRequests = 0
  /\ dashProps = DashPropsInitial
  /\ view = Null
  /\ route \in Routes
  /\ storeResets = 0
  /\ teamsState = TeamsInitialState
  /\ teamsReq = "none"
  /\ sections = [s \in Slugs |-> SectionInitial]

NextDashboard ==
  \/ DashMount \/ TeamsResolve \/ TeamsReject \/ OrgChange
  \/ Resolve \/ Reject \/ DashboardUnmount

SpecDashboard == InitDashboard /\ [][NextDashboard]_vars

\* Fair delivery: React runs the mount it has scheduled, and every request in
\* flight is eventually answered, with a response or with a rejection.
SpecDashboardFair ==
  /\ SpecDashboard
  /\ WF_vars(DashMount)
  /\ WF_vars(TeamsResolve \/ TeamsReject)
  /\ WF_vars(Resolve \/ Reject)

(***************************************************************************)
(* Dashboard.render of src/unnamed/part_000, which receives teams (each    *)
(* carrying its own project list), loadingTeams and error.                 *)
(***************************************************************************)
\* The project lists a team of the response can carry.
EmbeddedProjectLists == {<<>>, <<"p1">>, <<"p2", "p1">>, <<"p1", "p3", "p2">>}

\* A team object of the response.  Each project object it carries is an
\* object of its own: owner tells the objects of two teams apart.
TeamObject(slug, ids) ==
  [slug |-> slug,
   projects |-> [j \in DOMAIN ids |-> [owner |-> slug, id |-> ids[j]]]]

DashTeamLists ==
  {[i \in DOMAIN t |-> TeamObject(t[i], e[i])] :
     <<t, e>> \in {<<t, e>> \in TeamLists \X
                     UNION {[1..n -> EmbeddedProjectLists] : n \in 0..Cardinality(Slugs)} :
                   Len(t) = Len(e)}}

\* organization.access, as far as the dashboards read it.
AccessSets == {{}, {"project:admin"}}

DashPropsSet ==
  [teams : DashTeamLists, loadingTeams : BOOLEAN, error : {Null, Some("Error")},
   access : AccessSets]

\* _.flatten(teams.map(teamObj => teamObj.projects))
flattenTeamProjects(teams) == flat([i \in DOMAIN teams |-> teams[i].projects])

\* _.uniq(array): the first occurrence of every element, compared as lodash 4
\* compares objects (two project objects are the same only if they are one
\* object); the second argument of the call is not read.
RECURSIVE uniq(_)
uniq(array) ==
  IF array = <<>> THEN <<>>
  ELSE LET init == uniq(SubSeq(array, 1, Len(array) - 1))
           last == array[Len(array)]
       IN  IF \E i \in DOMAIN init : init[i] = last THEN init ELSE Append(init, last)

\* render() with the error test ahead of the loadingTeams test.
render000_ErrorFirst(p) ==
  IF p.error # Null THEN [kind |-> "error"]
  ELSE IF p.loadingTeams THEN [kind |-> "loading"]
  ELSE LET projects == uniq(flattenTeamProjects(p.teams))
       IN  IF Len(projects) = 0 THEN [kind |-> "empty"] ELSE [kind |-> "content"]

\* render() with the empty state decided by the number of teams.
render000_TeamCount(p) ==
  IF p.loadingTeams THEN [kind |-> "loading"]
  ELSE IF p.error # Null THEN [kind |-> "error"]
  ELSE IF Len(p.teams) = 0 THEN [kind |-> "empty"]
  ELSE [kind |-> "content"]

\* The grouping without the call of sortProjects.
projectsByTeam000_Unsorted(teams) ==
  [slug \in {teams[i].slug : i \in DOMAIN teams} |->
     teams[CHOOSE i \in DOMAIN teams : teams[i].slug = slug].projects]

\* Object.fromEntries(teams.map(teamObj => [teamObj.slug,
\* sortProjects(teamObj.projects)]))
projectsByTeam000(teams) ==
  [slug \in {teams[i].slug : i \in DOMAIN teams} |->
     sortProjects(teams[CHOOSE i \in DOMAIN teams : teams[i].slug = slug].projects)]

\* Dashboard.render() of part_000: the loading indicator, the error alert,
\* the empty-state message, or the content: the header if there are
\* projects, one TeamSection per key of projectsByTeam in sorted key order,
\* and the Resources panel last if showResources.
render000(p) ==
  IF p.loadingTeams THEN [kind |-> "loading"]
  ELSE IF p.error # Null THEN [kind |-> "error"]
  ELSE LET projectsByTeam == projectsByTeam000(p.teams)
           projects == uniq(flattenTeamProjects(p.teams))
           teamSlugs == SortSlugs(DOMAIN projectsByTeam)
           favorites == SelectSeq(projects, LAMBDA q : IsBookmarked(q.id))
           canCreateProjects == "project:admin" \in p.access
           showEmptyMessage == Len(projects) = 0 /\ Len(favorites) = 0
           showResources == Len(projects) = 1 /\ ~HasFirstEvent(projects[1].id)
       IN  IF showEmptyMessage THEN [kind |-> "empty"]
           ELSE [kind |-> "content",
                 header |-> IF Len(projects) > 0
                              THEN Some([createDisabled |-> ~canCreateProjects])
                              ELSE Null,
                 sections |-> [i \in DOMAIN teamSlugs |->
                                 [team |-> teamSlugs[i],
                                  projects |-> projectsByTeam[teamSlugs[i]],
                                  showBorder |-> i # Len(teamSlugs)]],
                 resources |-> showResources]

\* A mount that also resets the store.
DashRender_ResetAtMount ==
  /\ view = Null
  /\ view' = Some(render000(dashProps))
  /\ route' = DashboardDidMount(route)
  /\ storeResets' = storeResets + 1
  /\ UNCHANGED <<dashProps, wtpVars, wutVars, lightVars>>

\* React mounts the Dashboard: the first render(), then componentDidMount.
DashRender ==
  /\ view = Null
  /\ view' = Some(render000(dashProps))
  /\ route' = DashboardDidMount(route)
  /\ UNCHANGED <<dashProps, storeResets, wtpVars, wutVars, lightVars>>

\* The parent hands the Dashboard new props, and it renders again.
DashUpdate ==
  /\ view # Null
  /\ \E p \in DashPropsSet :
       /\ dashProps' = p
       /\ view' = Some(render000(p))
  /\ UNCHANGED <<route, storeResets, wtpVars, wutVars, lightVars>>

\* React unmounts the Dashboard: componentWillUnmount; a later DashRender
\* mounts a new instance with the props of the moment.
DashUnmount ==
  /\ view # Null
  /\ storeResets < MaxUnmounts
  /\ view' = Null
  /\ storeResets' = DashboardWillUnmount(storeResets)
  /\ UNCHANGED <<dashProps, route, wtpVars, wutVars, lightVars>>

InitRender ==
  /\ dashProps \in DashPropsSet
  /\ view = Null
  /\ route \in Routes
  /\ storeResets = 0
  /\ phase = "constructed"
  /\ props = [organization |-> OrgSlug, teams |-> <<>>, loadingTeams |-> FALSE]
  /\ wtpState = WTPInitialState
  /\ fanouts = <<>>
  /\ sameSetFanouts = 0
  /\ lateSetState = 0
  /\ wutState = WUTInitialState
  /\ wutReq = "none"
  /\ teamRequests = 0
  /\ teamsState = TeamsInitialState
  /\ teamsReq = "none"
  /\ sections = [s \in Slugs |-> SectionInitial]

NextRender == DashRender \/ DashUpdate \/ DashUnmount

SpecRender == InitRender /\ [][NextRender]_vars

(***************************************************************************)
(* The lightweight dashboard (lightWeightInstallPromptBanner.jsx, lines    *)
(* 86-234): Dashboard renders Teams, whose render callback lays out one    *)
(* lazily mounted TeamSection (teamSection.jsx) per team.                  *)
(***************************************************************************)
\* The render callback Dashboard gives to Teams (lines 191-229): nothing
\* until the teams are loaded, the empty-state message for no teams, one
\* TeamSection per team otherwise.
LightCallback(st) ==
  IF ~st.initiallyLoaded \/ st.fetching THEN [kind |-> "null"]
  ELSE IF Len(st.teams[1]) = 0 THEN [kind |-> "empty"]
  ELSE [kind |-> "content", teams |-> st.teams[1]]

\* const projects = [] in Dashboard.render (line 163).
LightProjects == <<>>

\* The header of the lightweight Dashboard (lines 171-188): rendered only if
\* projects is not empty, its Create Project button disabled without
\* project:admin.
LightHeader(access) ==
  LET canCreateProjects == "project:admin" \in access
  IN  IF Len(LightProjects) > 0
        THEN Some([createDisabled |-> ~canCreateProjects])
        ELSE Null

\* TeamSection.render(): one ProjectCard per project of this.state.projects,
\* in the order of that array.
TeamSectionRender(st) == [cards |-> st.projects]

\* React mounts the tree: Teams.componentDidMount calls fetchData, which sets
\* fetching and sends the team request.
LightMount ==
  /\ phase = "constructed"
  /\ phase' = "mounted"
  /\ teamsState' = setState(teamsState, [fetching |-> TRUE])
  /\ teamsReq' = "pending"
  /\ teamRequests' = teamRequests + 1
  /\ UNCHANGED <<props, wtpState, fanouts, sameSetFanouts, lateSetState>>
  /\ route' = DashboardDidMount(route)
  /\ UNCHANGED <<sections, wutState, wutReq, dashProps, view, storeResets>>

\* A fetchData whose response marks the component loaded and stores no teams.
LightTeamsResolve_NoTeams ==
  /\ teamsReq = "pending"
  /\ teamsReq' = "resolved"
  /\ IF phase = "mounted"
       THEN /\ teamsState' = setState(teamsState,
                 [initiallyLoaded |-> TRUE, fetching |-> FALSE])
            /\ UNCHANGED lateSetState
       ELSE /\ lateSetState' = lateSetState + 1
            /\ UNCHANGED teamsState
  /\ UNCHANGED <<phase, props, wtpState, fanouts, sameSetFanouts>>
  /\ UNCHANGED <<sections, wutVars, renderVars>>

\* Teams.fetchData: the awaited team request resolves.
LightTeamsResolve ==
  /\ teamsReq = "pending"
  /\ teamsReq' = "resolved"
  /\ \E data \in TeamLists :
       IF phase = "mounted"
         THEN /\ teamsState' = setState(teamsState,
                   [initiallyLoaded |-> TRUE, fetching |-> FALSE, teams |-> Some(data)])
              /\ UNCHANGED lateSetState
         ELSE /\ lateSetState' = lateSetState + 1
              /\ UNCHANGED teamsState
  /\ UNCHANGED <<phase, props, wtpState, fanouts, sameSetFanouts>>
  /\ UNCHANGED <<sections, wutVars, renderVars>>

\* Teams.fetchData: the awaited team request rejects; the catch block logs
\* the error.
LightTeamsReject ==
  /\ teamsReq = "pending"
  /\ teamsReq' = "rejected"
  /\ UNCHANGED <<teamsState, sections, wtpVars, wutVars, renderVars>>

\* LazyLoad mounts the TeamSection of a team the callback lays out:
\* componentDidMount calls fetchData, which sets loading and sends the request.
SectionMount ==
  /\ phase = "mounted"
  /\ LET out == LightCallback(teamsState)
     IN  /\ out.kind = "content"
         /\ \E i \in DOMAIN out.teams :
              /\ sections[out.teams[i]].phase = "lazy"
              /\ sections' = [sections EXCEPT ![out.teams[i]] =
                   [phase |-> "mounted",
                    state |-> setState(@.state, [loading |-> TRUE]),
                    req |-> "pending"]]
  /\ UNCHANGED <<teamsState, teamsReq, wtpVars, wutVars, renderVars>>

\* TeamSection.fetchData: the awaited project request resolves.
SectionResolve ==
  /\ \E s \in Slugs :
       /\ sections[s].req = "pending"
       /\ IF sections[s].phase = "mounted"
            THEN /\ sections' = [sections EXCEPT ![s] =
                      [phase |-> @.phase,
                       state |-> setState(@.state,
                                   [loading |-> FALSE, projects |-> ProjectsOfTeam[s]]),
                       req |-> "resolved"]]
                 /\ UNCHANGED lateSetState
            ELSE /\ sections' = [sections EXCEPT ![s].req = "resolved"]
                 /\ lateSetState' = lateSetState + 1
  /\ UNCHANGED <<phase, props, wtpState, fanouts, sameSetFanouts>>
  /\ UNCHANGED <<teamsState, teamsReq, wutVars, renderVars>>

\* TeamSection.fetchData: the awaited project request rejects; the catch
\* block logs the error.
SectionReject ==
  /\ \E s \in Slugs :
       /\ sections[s].req = "pending"
       /\ sections' = [sections EXCEPT ![s].req = "rejected"]
  /\ UNCHANGED <<teamsState, teamsReq, wtpVars, wutVars, renderVars>>

\* React unmounts the tree: componentWillUnmount of Dashboard resets the
\* store, and every TeamSection that was mounted is unmounted with it.
LightUnmount ==
  /\ phase = "mounted"
  /\ phase' = "unmounted"
  /\ sections' = [s \in Slugs |->
       IF sections[s].phase = "mounted"
         THEN [sections[s] EXCEPT !.phase = "unmounted"]
         ELSE sections[s]]
  /\ storeResets' = DashboardWillUnmount(storeResets)
  /\ UNCHANGED <<props, wtpState, fanouts, sameSetFanouts, lateSetState>>
  /\ UNCHANGED <<teamsState, teamsReq, wutVars, dashProps, view, route>>

NextLight ==
  \/ LightMount
  \/ LightTeamsResolve
  \/ LightTeamsReject
  \/ SectionMount
  \/ SectionResolve
  \/ SectionReject
  \/ LightUnmount

InitLight == InitDashboard

SpecLight == InitLight /\ [][NextLight]_vars

(***************************************************************************)
(* Properties of withTeamProjects, checked under Spec.                     *)
(***************************************************************************)
AllResolved(promises) == \A i \in DOMAIN promises : promises[i].status = "resolved"

NonePending(promises) == \A i \in DOMAIN promises : promises[i].status # "pending"

\* The responses of a fan-out concatenated in team-list order, a rejected
\* request counting as an empty list.
RECURSIVE ResponsesUpTo(_, _)
ResponsesUpTo(promises, n) ==
  IF n = 0 THEN <<>>
  ELSE ResponsesUpTo(promises, n - 1) \o
       (IF promises[n].status = "rejected" THEN <<>>
        ELSE ProjectsOfTeam[promises[n].endpoint.team])

Responses(promises) == ResponsesUpTo(promises, Len(promises))

OneRejectedRestResolved(promises) ==
  /\ Len(promises) >= 2
  /\ \E i \in DOMAIN promises :
       /\ promises[i].status = "rejected"
       /\ \A j \in DOMAIN promises \ {i} : promises[j].status = "resolved"

\* C1: when one request of the latest fan-out (two teams or more) has
\* rejected and all its others have resolved, loadingProjects is false and
\* projects holds the resolved teams' projects, the rejected team adding none.
C1_PartialFailureCompletes ==
  (/\ phase = "mounted"
   /\ fanouts # <<>>
   /\ OneRejectedRestResolved(fanouts[Len(fanouts)])
   /\ \A g \in DOMAIN fanouts : NonePending(fanouts[g]))
  => /\ wtpState.loadingProjects = FALSE
     /\ wtpState.projects = Responses(fanouts[Len(fanouts)])

\* C2: once every fan-out has completed, projects is the flattened result of
\* the fan-out issued last, whatever the order the responses arrived in.
C2_LatestFanoutWins ==
  (/\ phase = "mounted"
   /\ Len(fanouts) >= 2
   /\ \A g \in DOMAIN fanouts : AllResolved(fanouts[g]))
  => wtpState.projects = Responses(fanouts[Len(fanouts)])

\* C4: while the set of team slugs stays the same, at most one fan-out is
\* issued.
C4_OneFanoutPerSlugSet == sameSetFanouts <= 1

\* C5: a step that issues a fan-out is taken with loadingTeams false: neither
\* mount nor a prop update starts requests while the team list is loading.
C5_NoFetchWhileLoadingTeams ==
  [][Len(fanouts') > Len(fanouts) => ~props'.loadingTeams]_vars

\* C5 witness: mounted with a non-empty team list still loading, after a prop
\* update away from a list that was fetched, and no request issued for it.
C5_Witness ==
  /\ phase = "mounted"
  /\ props.loadingTeams
  /\ props.teams = <<"b">>
  /\ Len(fanouts) = 1
  /\ fanouts[1][1].endpoint.team = "a"

\* A step in which fetchProjects issues a fan-out issues exactly one pending
\* request per team of this.props.teams, in order.
OneRequestPerTeam ==
  Len(fanouts') > Len(fanouts) =>
    /\ Len(fanouts') = Len(fanouts) + 1
    /\ \A g \in DOMAIN fanouts : Len(fanouts'[g]) = Len(fanouts[g])
    /\ LET new == fanouts'[Len(fanouts')]
       IN  /\ Len(new) = Len(props'.teams)
           /\ \A i \in DOMAIN new :
                new[i] = [endpoint |-> [org |-> props'.organization,
                                        team |-> props'.teams[i]],
                          status |-> "pending"]

\* The step in which the last request of fan-out g resolves and its results
\* are committed.
FanIn(g) ==
  /\ ~AllResolved(fanouts[g])
  /\ AllResolved(fanouts'[g])
  /\ wtpState'.projects = Responses(fanouts'[g])
  /\ wtpState'.loadingProjects = FALSE

NoPartialCommit ==
  \/ wtpState.projects = <<>>
  \/ \E g \in DOMAIN fanouts :
       AllResolved(fanouts[g]) /\ wtpState.projects = Responses(fanouts[g])

\* C6 as stated: one request per team, and projects and loadingProjects
\* change only in the step in which every request of a fan-out has resolved.
C6_StateChangesOnlyAtFanIn ==
  [][/\ OneRequestPerTeam
     /\ wtpState' # wtpState => \E g \in DOMAIN fanouts : FanIn(g)]_vars

\* C6 amended: one request per team; projects changes, and loadingProjects
\* becomes false, only in the step in which every request of a fan-out has
\* resolved, where projects becomes the responses in team-list order; the only
\* other change of the state is fetchProjects setting loadingProjects to true;
\* projects never holds the result of a strict subset of a fan-out.
C6_CommitOnlyAtFanIn ==
  /\ []NoPartialCommit
  /\ [][/\ OneRequestPerTeam
        /\ (\/ wtpState'.projects # wtpState.projects
            \/ wtpState.loadingProjects /\ ~wtpState'.loadingProjects)
             => \E g \in DOMAIN fanouts : FanIn(g)
        /\ (wtpState' # wtpState /\ ~\E g \in DOMAIN fanouts : FanIn(g))
             => wtpState' = [wtpState EXCEPT !.loadingProjects = TRUE]]_vars

\* C6 witness: a two-team fan-out issued after an earlier one has completed,
\* its results committed in team-list order.
C6_Witness ==
  /\ phase = "mounted"
  /\ Len(fanouts) = 2
  /\ Len(fanouts[2]) = 2
  /\ AllResolved(fanouts[2])
  /\ wtpState = [projects |-> Responses(fanouts[2]), loadingProjects |-> FALSE]
  /\ Len(wtpState.projects) = 4

\* C8: no response that arrives after the unmount calls setState on the
\* unmounted component.
C8_NoSetStateAfterUnmount == lateSetState = 0

NoResponseYet ==
  \A g \in DOMAIN fanouts : \A i \in DOMAIN fanouts[g] : fanouts[g][i].status = "pending"

\* C10: loadingProjects is true until the first response, and projects is
\* empty whenever loadingProjects is true.
C10_EmptyWhileLoading ==
  /\ NoResponseYet => wtpState.loadingProjects
  /\ wtpState.loadingProjects => wtpState.projects = <<>>

(***************************************************************************)
(* Properties of the composed dashboard, checked under SpecDashboard.      *)
(***************************************************************************)
\* C3: once the team request has resolved with an empty team list, the
\* dashboard shows the empty-state message, and no per-team project request
\* has been issued.
C3_EmptyTeamListShowsEmptyState ==
  (phase = "mounted" /\ wutReq = "resolved" /\ wutState.teams = <<>>)
  => (DashboardView.kind = "empty" /\ fanouts = <<>>)

(***************************************************************************)
(* Properties of Dashboard.render (part_000), checked under SpecRender.    *)
(***************************************************************************)
NoProjects(teams) == \A i \in DOMAIN teams : teams[i].projects = <<>>

\* C9: render returns exactly one outcome, in fixed priority: the loading
\* indicator whenever loadingTeams is true, else the error message whenever
\* error is set, else the empty-state message when no team has a project,
\* else the content layout.
C9_RenderPriority ==
  view # Null =>
    LET kind == view[1].kind
    IN  /\ kind \in {"loading", "error", "empty", "content"}
        /\ kind = "loading" <=> dashProps.loadingTeams
        /\ kind = "error" <=> (~dashProps.loadingTeams /\ dashProps.error # Null)
        /\ kind = "empty" <=> (/\ ~dashProps.loadingTeams
                               /\ dashProps.error = Null
                               /\ NoProjects(dashProps.teams))
        /\ kind = "content" <=> (/\ ~dashProps.loadingTeams
                                 /\ dashProps.error = Null
                                 /\ ~NoProjects(dashProps.teams))

\* C9 witness: rendered with loadingTeams true and error set at once, over
\* an empty team list: the loading indicator.
C9_Witness ==
  /\ view = Some([kind |-> "loading"])
  /\ dashProps.loadingTeams
  /\ dashProps.error # Null
  /\ dashProps.teams = <<>>

(***************************************************************************)
(* Properties of Teams and TeamSection, checked under SpecLight.           *)
(***************************************************************************)
HasError(st) == "error" \in DOMAIN st /\ st.error # Null

\* C7: once the team request has rejected, Teams holds an error indicator
\* and its loading flag (fetching) is false.
C7_RejectionClearsLoading ==
  (phase = "mounted" /\ teamsReq = "rejected")
  => (HasError(teamsState) /\ teamsState.fetching = FALSE)

(***************************************************************************)
(* Further properties of withTeamProjects, checked under Spec.             *)
(***************************************************************************)
\* The team list a fan-out was issued for.
TeamsOf(promises) == [i \in DOMAIN promises |-> promises[i].endpoint.team]

\* C11: the flattened project collection the wrapper injects holds every
\* project identifier at most once, also when two teams share a project.
C11_UniqueProjectIds ==
  \A i, j \in DOMAIN wtpState.projects :
    wtpState.projects[i] = wtpState.projects[j] => i = j

\* C13: whenever loadingTeams is false and the team list is not empty, the
\* fan-out issued last was issued for the current team list.
C13_LastFanoutIsForCurrentTeams ==
  (phase = "mounted" /\ ~props.loadingTeams /\ props.teams # <<>>)
  => /\ fanouts # <<>>
     /\ TeamsOf(fanouts[Len(fanouts)]) = props.teams

\* C14: whenever loadingProjects is false (the team list loaded), no fan-out
\* is in flight and projects is the complete result of the fan-out issued
\* for the current team list.
C14_DoneMeansLatestComplete ==
  (phase = "mounted" /\ ~props.loadingTeams /\ ~wtpState.loadingProjects)
  => /\ \A g \in DOMAIN fanouts : \E i \in DOMAIN fanouts[g] :
          fanouts[g][i].status = "rejected" \/ AllResolved(fanouts[g])
     /\ fanouts # <<>>
     /\ AllResolved(fanouts[Len(fanouts)])
     /\ TeamsOf(fanouts[Len(fanouts)]) = props.teams
     /\ wtpState.projects = Responses(fanouts[Len(fanouts)])

(***************************************************************************)
(* The team request of withUsersTeams, checked under SpecDashboard.        *)
(***************************************************************************)
\* C19: the team-fetching wrapper issues exactly one team-list request per
\* mount, at mount: none before the mount, one from the mount on, and no
\* further one on a change of organization, a response or an unmount.
C19_OneTeamRequestPerMount ==
  /\ teamRequests = (IF phase = "constructed" THEN 0 ELSE 1)
  /\ (phase = "constructed") = (wutReq = "none")

\* The organization changed after the team request was answered.
C19_Witness ==
  /\ phase = "mounted"
  /\ props.organization # OrgSlug
  /\ wutReq = "resolved"
  /\ wutState.teams # <<>>
  /\ teamRequests = 1

(***************************************************************************)
(* Properties of Dashboard.render (part_000), checked under SpecRender.    *)
(***************************************************************************)
IdsOf(projects) == [j \in DOMAIN projects |-> projects[j].id]

NoRepeat(seq) == \A i, j \in DOMAIN seq : seq[i] = seq[j] => i = j

\* A sequence of project identifiers in the order (isBookmarked desc, name asc).
InProjectOrder(ids) == \A i, j \in DOMAIN ids : i < j => ~Precedes(ids[j], ids[i])

\* render() has run and has got past the loading and the error return.
Computed == view # Null /\ ~dashProps.loadingTeams /\ dashProps.error = Null

DistinctProjectIds(teams) ==
  UNION {{teams[i].projects[j].id : j \in DOMAIN teams[i].projects} : i \in DOMAIN teams}

\* C15: when the teams carry exactly one project and it has no firstEvent,
\* render returns the content (header and team sections) with the Resources
\* panel; with any other number of projects, or with a firstEvent on the
\* single project, the Resources panel is not rendered.
C15_ResourcesIffSingleNewProject ==
  Computed =>
    LET ids == DistinctProjectIds(dashProps.teams)
        single == Cardinality(ids) = 1 /\ \A q \in ids : ~HasFirstEvent(q)
    IN  /\ single => /\ view[1].kind = "content"
                     /\ view[1].header # Null
                     /\ view[1].resources
        /\ (~single /\ view[1].kind = "content") => ~view[1].resources

\* What the render callback of the lightweight Dashboard returns for the
\* same teams once they are loaded: its rule tests teams.length.
TeamCountView(p) ==
  LightCallback([initiallyLoaded |-> TRUE, fetching |-> FALSE,
                 teams |-> Some([i \in DOMAIN p.teams |-> p.teams[i].slug])])

\* C20: the rule that tests the project count and the rule that tests the
\* team count select the empty state for the same inputs, except exactly
\* when there is at least one team and no team has a project: there the
\* project-count rule gives the empty state and the team-count rule gives
\* team sections.
C20_EmptyRulesDifferOnlyForProjectlessTeams ==
  Computed =>
    LET projectCountEmpty == view[1].kind = "empty"
        teamCountEmpty == TeamCountView(dashProps).kind = "empty"
        projectless == /\ Len(dashProps.teams) >= 1
                       /\ \A i \in DOMAIN dashProps.teams :
                            dashProps.teams[i].projects = <<>>
    IN  /\ (projectCountEmpty # teamCountEmpty) <=> projectless
        /\ projectless => (projectCountEmpty /\ TeamCountView(dashProps).kind = "content")

\* Two teams without projects: the empty state here, team sections there.
C20_Witness ==
  /\ Computed
  /\ Len(dashProps.teams) = 2
  /\ \A i \in DOMAIN dashProps.teams : dashProps.teams[i].projects = <<>>
  /\ view[1].kind = "empty"
  /\ TeamCountView(dashProps).kind = "content"

(***************************************************************************)
(* Properties of the lightweight dashboard, checked under SpecLight.       *)
(***************************************************************************)
\* C16: in the content state there is exactly one team section per team of
\* the team list, and the sections are in ascending order of team slug.
C16_SectionsInSlugOrder ==
  LET out == LightCallback(teamsState)
  IN  (phase = "mounted" /\ out.kind = "content") =>
        /\ Len(out.teams) = Len(teamsState.teams[1])
        /\ SlugSet(out.teams) = SlugSet(teamsState.teams[1])
        /\ \A i, j \in DOMAIN out.teams :
             i < j => SlugRank[out.teams[i]] < SlugRank[out.teams[j]]

\* C17: in every TeamSection whose fetch has completed, the project cards are
\* in the order (isBookmarked desc, name asc).
C17_CardsInProjectOrder ==
  \A s \in Slugs :
    (sections[s].phase = "mounted" /\ sections[s].req = "resolved")
    => InProjectOrder(TeamSectionRender(sections[s].state).cards)

\* C18: in the content state the header with the Create Project action is
\* rendered, and the action is enabled exactly with project:admin.
C18_ContentHasHeader ==
  (phase = "mounted" /\ LightCallback(teamsState).kind = "content") =>
    \A access \in AccessSets :
      /\ LightHeader(access) # Null
      /\ LightHeader(access)[1].createDisabled = ("project:admin" \notin access)

C21_StoreResetOncePerUnmount ==
  [][IF view # Null /\ view' = Null
       THEN storeResets' = storeResets + 1
       ELSE storeResets' = storeResets]_vars

\* The Dashboard is mounted for the third time, after two unmounts, and has
\* rendered its content.
C21_Witness ==
  /\ storeResets = 2
  /\ view # Null
  /\ view[1].kind = "content"

(***************************************************************************)
(* Termination of the loading state of the composed dashboard, checked     *)
(* under SpecDashboardFair.                                                *)
(***************************************************************************)
\* The team request has resolved with a non-empty team list.
TeamsArrived == wutReq = "resolved" /\ wutState.teams # <<>>

\* A request of the fan-out issued last was rejected.
SomeRejected ==
  /\ fanouts # <<>>
  /\ \E i \in DOMAIN fanouts[Len(fanouts)] :
       fanouts[Len(fanouts)][i].status = "rejected"

\* The wrapper has finished for the current team list: loadingProjects is
\* false, the Dashboard is out of its loading state, and projects is the
\* flattened responses of the fan-out for that list.
ProjectsLoaded ==
  /\ fanouts # <<>>
  /\ TeamsOf(fanouts[Len(fanouts)]) = wutState.teams
  /\ AllResolved(fanouts[Len(fanouts)])
  /\ ~wtpState.loadingProjects
  /\ DashboardView.kind # "loading"
  /\ wtpState.projects = Responses(fanouts[Len(fanouts)])

\* C22 as stated: once the team request has resolved with a non-empty team
\* list, and unless a per-team request is rejected, loadingProjects
\* eventually becomes false, the Dashboard leaves the loading state and
\* projects is the flattened per-team responses for that team list.
C22_LoadingEnds == TeamsArrived ~> (ProjectsLoaded \/ SomeRejected)

\* C22: the same, for a tree that stays mounted until the responses have
\* arrived: once the team request has resolved with a non-empty team list,
\* and unless a per-team request is rejected or the tree is unmounted,
\* loadingProjects eventually becomes false, the Dashboard leaves the
\* loading state, and projects is the flattened per-team responses for that
\* team list; and whenever loadingProjects is false after the teams
\* arrived, projects is exactly that.
C22_LoadingEndsWhileMounted ==
  /\ TeamsArrived ~> (ProjectsLoaded \/ SomeRejected \/ phase = "unmounted")
  /\ []((TeamsArrived /\ ~wtpState.loadingProjects) => ProjectsLoaded)

\* Two teams arrived, both per-team requests resolved, and the tree is still
\* mounted and shows the projects.
C22_Witness ==
  /\ phase = "mounted"
  /\ TeamsArrived
  /\ Len(wutState.teams) = 2
  /\ ProjectsLoaded
  /\ DashboardView.kind = "content"

====
